---- MODULE Spec2Model ----
(***************************************************************************)
(* One "Run Talent Match" click of src/App.py (lines 61-211): the          *)
(* benchmark insert, the run_talent_match RPC, the Ollama profile call,    *)
(* the float coercion of the three rate columns, the role filter, the      *)
(* groupby/mean/sort that builds df_final, the three tabs and the          *)
(* insights summary, with the two st.stop() exits and the outer            *)
(* "except Exception" handler.                                             *)
(*                                                                         *)
(* Text cells are TLA+ strings, except out_role and role_name, which are   *)
(* sequences of one-character strings so that str.lower() is computed      *)
(* character by character.  A float is a fraction [num, den]; den = 0 is   *)
(* NaN.  The rates of the model are whole percentages, so float sums and   *)
(* quotients of at most MaxRows of them compare exactly as the fractions.  *)
(***************************************************************************)
EXTENDS Integers, Sequences, FiniteSets

\* The longest response of run_talent_match the model draws.
MaxRows == 3

(***************************************************************************)
(* Cells                                                                   *)
(***************************************************************************)
\* Python None / JSON null in a text column.
None == "<None>"
\* None in the out_role column.
NoneRole == <<None>>

\* str.lower() on one character of the model's alphabet.
LowerTable ==
  [c \in {"D", "A", "H", "R", "d", "a", "h", "r"} |->
     CASE c = "D" -> "d" [] c = "A" -> "a" [] c = "H" -> "h" [] c = "R" -> "r"
       [] OTHER -> c]

LowerChar(c) == LowerTable[c]

\* str.lower(): every character lower-cased, length kept.
Lower(s) == [i \in 1..Len(s) |-> LowerChar(s[i])]

\* A raw rate cell as the RPC returns it: a JSON number, a JSON string, or null.
NumCell(n) == [kind |-> "number", num |-> n, text |-> <<>>]
TextCell(t) == [kind |-> "text", num |-> 0, text |-> t]
NullCell == [kind |-> "null", num |-> 0, text |-> <<>>]

\* float values: a fraction in lowest terms, den = 0 for NaN.
NaN == [num |-> 0, den |-> 0]
Float(n) == [num |-> n, den |-> 1]
IsNaN(x) == x.den = 0

Digits == {"0", "1", "2", "3", "4", "5", "6", "7", "8", "9"}

DigitVal(c) ==
  CASE c = "0" -> 0 [] c = "1" -> 1 [] c = "2" -> 2 [] c = "3" -> 3 [] c = "4" -> 4
    [] c = "5" -> 5 [] c = "6" -> 6 [] c = "7" -> 7 [] c = "8" -> 8 [] c = "9" -> 9

RECURSIVE DecimalValue(_)
DecimalValue(t) ==
  IF t = <<>> THEN 0
  ELSE 10 * DecimalValue(SubSeq(t, 1, Len(t) - 1)) + DigitVal(t[Len(t)])

\* float(str) succeeds on the model's strings exactly when they are digit strings.
ParsesAsFloat(t) == t # <<>> /\ \A i \in 1..Len(t) : t[i] \in Digits

\* astype(float) on one cell raises ValueError.
CoercionRaises(c) == c.kind = "text" /\ ~ParsesAsFloat(c.text)

\* astype(float) on one cell that does not raise: None becomes NaN.
ToFloat(c) ==
  CASE c.kind = "number" -> Float(c.num)
    [] c.kind = "null" -> NaN
    [] OTHER -> Float(DecimalValue(c.text))

(***************************************************************************)
(* Rows of the RPC response                                                *)
(***************************************************************************)
Da == <<"D", "a">>

BaseRow ==
  [out_employee_id |-> 1, out_fullname |-> "Ann", out_directorate |-> "Ops",
   out_role |-> Da, out_grade |-> "III", out_tgv_name |-> "T1",
   out_final_match_rate |-> NumCell(80), out_tgv_match_rate |-> NumCell(50),
   out_tv_match_rate |-> NumCell(50)]

\* A second employee: under another name with the same scores, and under the same
\* name with the second score profile, which employee 1 can have too.
IdentityRows ==
  { [BaseRow EXCEPT !.out_employee_id = 2, !.out_fullname = "Bob"] }
  \cup
  { [BaseRow EXCEPT !.out_employee_id = e, !.out_tgv_name = "T2",
                    !.out_final_match_rate = NumCell(60),
                    !.out_tgv_match_rate = NumCell(70)] : e \in {1, 2} }

\* Identity cells that are null or differ within one employee.
GradeRows ==
  { [BaseRow EXCEPT !.out_grade = g] : g \in {None, "IV"} }

\* Other spellings of the role, another role, no role.
RoleRows ==
  { [BaseRow EXCEPT !.out_role = r] : r \in {<<"d", "a">>, <<"H", "r">>, NoneRole} }

\* Rate cells that are null, numeric text, or text that is no number.
RateRows ==
  { [BaseRow EXCEPT !.out_final_match_rate = c] :
      c \in {NullCell, TextCell(<<"9", "0">>), TextCell(<<"x">>)} }
  \cup
  { [BaseRow EXCEPT !.out_tv_match_rate = TextCell(<<>>)] }

RowUniverse == {BaseRow} \cup IdentityRows \cup GradeRows \cup RoleRows \cup RateRows

RECURSIVE SeqsUpTo(_, _)
SeqsUpTo(S, n) ==
  IF n = 0 THEN {<<>>}
  ELSE LET shorter == SeqsUpTo(S, n - 1)
       IN  shorter \cup { Append(s, x) : s \in {t \in shorter : Len(t) = n - 1}, x \in S }

FinalRow(e, n, rate) ==
  [BaseRow EXCEPT !.out_employee_id = e, !.out_fullname = n,
                  !.out_final_match_rate = NumCell(rate)]

\* The two worked scenarios: one employee with 80, 90, 70; E1 with 85, 95 and E2 with 60.
ScenarioMean == <<FinalRow(1, "Ann", 80), FinalRow(1, "Ann", 90), FinalRow(1, "Ann", 70)>>
ScenarioRanking == <<FinalRow(1, "Ann", 85), FinalRow(1, "Ann", 95), FinalRow(2, "Bob", 60)>>

\* What sql_result.data can be: any list of at most MaxRows rows (the empty list too).
Responses == SeqsUpTo(RowUniverse, MaxRows) \cup {ScenarioMean, ScenarioRanking}

\* What the sidebar's selectbox can hold.
RoleNames == {<<"d", "a">>, <<"H", "R">>}

(***************************************************************************)
(* Dataframe operations                                                    *)
(***************************************************************************)
Range(s) == { s[i] : i \in 1..Len(s) }

\* One of the three astype(float) calls of lines 122-124 raises.
AstypeRaises(data) ==
  \E i \in 1..Len(data) :
     \/ CoercionRaises(data[i].out_final_match_rate)
     \/ CoercionRaises(data[i].out_tgv_match_rate)
     \/ CoercionRaises(data[i].out_tv_match_rate)

\* The frame after lines 122-124: the three rate columns as floats.
AstypeFloat(data) ==
  [i \in 1..Len(data) |->
     [data[i] EXCEPT !.out_final_match_rate = ToFloat(@),
                     !.out_tgv_match_rate = ToFloat(@),
                     !.out_tv_match_rate = ToFloat(@)]]

\* The mask without the two lower() calls.
RoleMask_CaseSensitive(r, role) == r.out_role = role

\* The boolean mask of line 126; .str.lower() of None is NaN, which equals nothing.
RoleMask(r, role) == r.out_role # NoneRole /\ Lower(r.out_role) = Lower(role)

RECURSIVE SelectRows(_, _)
SelectRows(df, role) ==
  IF df = <<>> THEN <<>>
  ELSE LET rest == SelectRows(Tail(df), role)
       IN  IF RoleMask(Head(df), role) THEN <<Head(df)>> \o rest ELSE rest

\* df[df["out_role"].str.lower() == role_name.lower()]
FilterRole(df, role) == SelectRows(df, role)

RECURSIVE Gcd(_, _)
Gcd(a, b) == IF b = 0 THEN a ELSE Gcd(b, a % b)

\* sum / count as a float; 0 / 0 is NaN.
Divide(sum, count) ==
  IF count = 0 THEN NaN
  ELSE LET g == Gcd(sum, count) IN [num |-> sum \div g, den |-> count \div g]

RECURSIVE SumOf(_)
SumOf(xs) == IF xs = <<>> THEN 0 ELSE Head(xs).num + SumOf(Tail(xs))

RECURSIVE DropNaN(_)
DropNaN(xs) ==
  IF xs = <<>> THEN <<>>
  ELSE IF IsNaN(Head(xs)) THEN DropNaN(Tail(xs)) ELSE <<Head(xs)>> \o DropNaN(Tail(xs))

\* Series.mean() of whole-number floats: NaN cells are skipped (skipna=True).
Mean(xs) == LET kept == DropNaN(xs) IN Divide(SumOf(kept), Len(kept))

\* a < b on floats that are not NaN.
FloatLess(a, b) == a.num * b.den < b.num * a.den

\* The groupby key of line 137.
GroupKey(r) ==
  <<r.out_employee_id, r.out_fullname, r.out_directorate, r.out_role, r.out_grade>>

\* groupby(dropna=True) leaves out a row with a null in any key column.
HasNullKey(r) ==
  \/ r.out_fullname = None
  \/ r.out_directorate = None
  \/ r.out_role = NoneRole
  \/ r.out_grade = None

GroupKeys(df) == { GroupKey(df[i]) : i \in { j \in 1..Len(df) : ~HasNullKey(df[j]) } }

RECURSIVE FinalRatesOf(_, _)
FinalRatesOf(df, k) ==
  IF df = <<>> THEN <<>>
  ELSE IF GroupKey(Head(df)) = k
       THEN <<Head(df).out_final_match_rate>> \o FinalRatesOf(Tail(df), k)
       ELSE FinalRatesOf(Tail(df), k)

\* .agg({'out_final_match_rate': 'mean'}).reset_index(): one record per group.
GroupEntry(df, k) ==
  [out_employee_id |-> k[1], out_fullname |-> k[2], out_directorate |-> k[3],
   out_role |-> k[4], out_grade |-> k[5],
   out_final_match_rate |-> Mean(FinalRatesOf(df, k))]

GroupByMean(df) == { GroupEntry(df, k) : k \in GroupKeys(df) }

IndexOrders(n) == { p \in [1..n -> 1..n] : \A i, j \in 1..n : i # j => p[i] # p[j] }

\* x must come before y in a descending sort with NaN last.
MustPrecede(x, y) == ~IsNaN(x) /\ (IsNaN(y) \/ FloatLess(y, x))

\* sort_values(ascending=False) with the default kind='quicksort', which is not
\* stable: every arrangement of s that is descending with NaN last.
SortValuesDescending(s, by) ==
  LET n == Len(s)
      keys == [i \in 1..n |-> s[i][by]]
      sorted(q) == \A i, j \in 1..n : i < j => ~MustPrecede(keys[q[j]], keys[q[i]])
  IN  { [i \in 1..n |-> s[p[i]]] : p \in { q \in IndexOrders(n) : sorted(q) } }

\* The groups as a frame, in some row order (the order is decided by the sort).
RECURSIVE AsFrame(_)
AsFrame(S) ==
  IF S = {} THEN <<>>
  ELSE LET e == CHOOSE x \in S : TRUE IN <<e>> \o AsFrame(S \ {e})

\* Lines 136-141: what df_final can be.
Aggregate(df) == SortValuesDescending(AsFrame(GroupByMean(df)), "out_final_match_rate")

RECURSIVE DropDuplicates(_)
DropDuplicates(s) ==
  IF s = <<>> THEN <<>>
  ELSE LET front == DropDuplicates(SubSeq(s, 1, Len(s) - 1))
       IN  IF s[Len(s)] \in Range(front) THEN front ELSE Append(front, s[Len(s)])

\* Line 170.
TgvView(df) ==
  DropDuplicates([i \in 1..Len(df) |->
     [out_employee_id |-> df[i].out_employee_id, out_fullname |-> df[i].out_fullname,
      out_tgv_name |-> df[i].out_tgv_name, out_tgv_match_rate |-> df[i].out_tgv_match_rate]])

\* Lines 185-186 (the columns the model carries).
TvView(df) ==
  [i \in 1..Len(df) |->
     [out_fullname |-> df[i].out_fullname, out_tgv_name |-> df[i].out_tgv_name,
      out_tv_match_rate |-> df[i].out_tv_match_rate]]

RECURSIVE RowsNamed(_, _)
RowsNamed(df, name) ==
  IF df = <<>> THEN <<>>
  ELSE IF Head(df).out_fullname = name THEN <<Head(df)>> \o RowsNamed(Tail(df), name)
       ELSE RowsNamed(Tail(df), name)

\* Lines 195-199: what top_tgv can be.
TopTgv(df, top) ==
  { s[1] : s \in SortValuesDescending(RowsNamed(df, top.out_fullname), "out_tgv_match_rate") }

(***************************************************************************)
(* The run                                                                 *)
(***************************************************************************)
VARIABLES
  pc,          \* the statement the run is at, or how it ended
  role_name,   \* the sidebar's selected role
  calls,       \* the external calls issued so far
  messages,    \* what st.success / st.warning / st.error / st.markdown have shown
  sql_result,  \* sql_result.data
  df,          \* the frame after the float coercion, then after the role filter
  df_final,    \* the ranked frame
  df_tgv,      \* the frame of tab 2
  df_tv,       \* the frame of tab 3
  insight,     \* <<>>, or <<[top_person, top_tgv]>> once the summary is written
  produced     \* the stages of the pipeline that have run

vars ==
  <<pc, role_name, calls, messages, sql_result, df, df_final, df_tgv, df_tv, insight,
    produced>>

Init ==
  /\ pc = "insert"
  /\ role_name \in RoleNames
  /\ calls = {}
  /\ messages = {}
  /\ sql_result = <<>>
  /\ df = <<>>
  /\ df_final = <<>>
  /\ df_tgv = <<>>
  /\ df_tv = <<>>
  /\ insight = <<>>
  /\ produced = {}

\* Lines 210-211: the outer handler shows the error; the script ends.
OuterExcept ==
  /\ messages' = messages \cup {"error_executing"}
  /\ pc' = "handled"

\* st.stop(): StopException is no Exception, the outer handler lets it through.
StStop == pc' = "stopped"

\* Lines 64-73: the insert succeeds or raises; either way the run goes on.
InsertBenchmark(ok) ==
  /\ pc = "insert"
  /\ calls' = calls \cup {"insert"}
  /\ messages' = messages \cup {IF ok THEN "benchmark_recorded" ELSE "benchmark_warning"}
  /\ pc' = "rpc"
  /\ UNCHANGED <<role_name, sql_result, df, df_final, df_tgv, df_tv, insight, produced>>

\* Line 79 raises.
RpcRaises ==
  /\ pc = "rpc"
  /\ calls' = calls \cup {"rpc"}
  /\ OuterExcept
  /\ UNCHANGED <<role_name, sql_result, df, df_final, df_tgv, df_tv, insight, produced>>

\* Lines 79-86 without the st.stop() of line 83.
RpcReturns_NoStop(data) ==
  /\ pc = "rpc"
  /\ calls' = calls \cup {"rpc"}
  /\ sql_result' = data
  /\ messages' = messages \cup {IF data = <<>> THEN "no_data_error" ELSE "match_computed"}
  /\ pc' = "generate"
  /\ UNCHANGED <<role_name, df, df_final, df_tgv, df_tv, insight, produced>>

\* Lines 79-86: the RPC returns data.
RpcReturns(data) ==
  /\ pc = "rpc"
  /\ calls' = calls \cup {"rpc"}
  /\ IF data = <<>>
     THEN /\ messages' = messages \cup {"no_data_error"}
          /\ StStop
          /\ UNCHANGED sql_result
     ELSE /\ sql_result' = data
          /\ messages' = messages \cup {"match_computed"}
          /\ pc' = "generate"
  /\ UNCHANGED <<role_name, df, df_final, df_tgv, df_tv, insight, produced>>

\* Lines 107-116 without the inner try: a failed POST reaches the outer handler.
GenerateProfile_Fatal(ok) ==
  /\ pc = "generate"
  /\ calls' = calls \cup {"generate"}
  /\ IF ok
     THEN /\ messages' = messages \cup {"profile_markdown"}
          /\ pc' = "astype"
     ELSE OuterExcept
  /\ UNCHANGED <<role_name, sql_result, df, df_final, df_tgv, df_tv, insight, produced>>

\* Lines 107-116: the POST to /api/generate succeeds or raises; either way the run goes on.
GenerateProfile(ok) ==
  /\ pc = "generate"
  /\ calls' = calls \cup {"generate"}
  /\ messages' = messages \cup {IF ok THEN "profile_markdown" ELSE "profile_warning"}
  /\ pc' = "astype"
  /\ UNCHANGED <<role_name, sql_result, df, df_final, df_tgv, df_tv, insight, produced>>

\* Lines 122-124.
CoerceRates ==
  /\ pc = "astype"
  /\ IF AstypeRaises(sql_result)
     THEN /\ OuterExcept
          /\ UNCHANGED <<df, produced>>
     ELSE /\ df' = AstypeFloat(sql_result)
          /\ produced' = produced \cup {"astype"}
          /\ pc' = "filter"
          /\ UNCHANGED messages
  /\ UNCHANGED <<role_name, calls, sql_result, df_final, df_tgv, df_tv, insight>>

\* Lines 126-130 without the st.stop() of line 130.
FilterByRole_NoStop ==
  /\ pc = "filter"
  /\ df' = FilterRole(df, role_name)
  /\ produced' = produced \cup {"filter"}
  /\ messages' = messages \cup (IF df' = <<>> THEN {"no_candidates_warning"} ELSE {})
  /\ pc' = "groupby"
  /\ UNCHANGED <<role_name, calls, sql_result, df_final, df_tgv, df_tv, insight>>

\* Lines 126-130.
FilterByRole ==
  /\ pc = "filter"
  /\ df' = FilterRole(df, role_name)
  /\ produced' = produced \cup {"filter"}
  /\ IF df' = <<>>
     THEN /\ messages' = messages \cup {"no_candidates_warning"}
          /\ StStop
     ELSE /\ pc' = "groupby"
          /\ UNCHANGED messages
  /\ UNCHANGED <<role_name, calls, sql_result, df_final, df_tgv, df_tv, insight>>

\* Lines 136-141.
AggregateFinal ==
  /\ pc = "groupby"
  /\ df_final' \in Aggregate(df)
  /\ produced' = produced \cup {"aggregate"}
  /\ pc' = "tabs"
  /\ UNCHANGED <<role_name, calls, messages, sql_result, df, df_tgv, df_tv, insight>>

\* Lines 147-187: the three tabs.
RenderTabs ==
  /\ pc = "tabs"
  /\ df_tgv' = TgvView(df)
  /\ df_tv' = TvView(df)
  /\ produced' = produced \cup {"tabs"}
  /\ pc' = "insights"
  /\ UNCHANGED <<role_name, calls, messages, sql_result, df, df_final, insight>>

\* Lines 193-208: df_final.iloc[0] raises IndexError on an empty frame.
InsightsSummary ==
  /\ pc = "insights"
  /\ IF df_final = <<>>
     THEN /\ OuterExcept
          /\ UNCHANGED <<insight, produced>>
     ELSE /\ \E top_tgv \in TopTgv(df, df_final[1]) :
               insight' = <<[top_person |-> df_final[1], top_tgv |-> top_tgv]>>
          /\ produced' = produced \cup {"insights"}
          /\ pc' = "finished"
          /\ UNCHANGED messages
  /\ UNCHANGED <<role_name, calls, sql_result, df, df_final, df_tgv, df_tv>>

Next ==
  \/ \E ok \in BOOLEAN : InsertBenchmark(ok)
  \/ RpcRaises
  \/ pc = "rpc" /\ \E data \in Responses : RpcReturns(data)
  \/ \E ok \in BOOLEAN : GenerateProfile(ok)
  \/ CoerceRates
  \/ FilterByRole
  \/ AggregateFinal
  \/ RenderTabs
  \/ InsightsSummary

Spec == Init /\ [][Next]_vars

(***************************************************************************)
(* Properties                                                              *)
(***************************************************************************)
Terminal == pc \in {"stopped", "handled", "finished"}

NothingRanked ==
  /\ produced \cap {"aggregate", "tabs", "insights"} = {}
  /\ df_final = <<>> /\ df_tgv = <<>> /\ df_tv = <<>> /\ insight = <<>>

EntryKey(e) ==
  <<e.out_employee_id, e.out_fullname, e.out_directorate, e.out_role, e.out_grade>>

RankedDescending ==
  \A i, j \in 1..Len(df_final) :
     i < j => ~FloatLess(df_final[i].out_final_match_rate, df_final[j].out_final_match_rate)

\* C1: once the Aggregator has run on the non-empty filtered rows, df_final holds
\* exactly one entry per distinct identity tuple (employeeId, fullName, directorate,
\* role, grade) of those rows, tuples with a null field included, and is ordered
\* non-increasing by mean finalMatchRate.
C1_OneEntryPerIdentity ==
  "aggregate" \in produced =>
     /\ { EntryKey(df_final[i]) : i \in 1..Len(df_final) } = { GroupKey(r) : r \in Range(df) }
     /\ Len(df_final) = Cardinality({ GroupKey(r) : r \in Range(df) })
     /\ RankedDescending

\* C2: the insight is the top entry of df_final together with a row of the same
\* employeeId whose groupMatchRate is the largest among that employee's rows, also when
\* another employee carries the same fullName.
C2_InsightRowBelongsToTop ==
  insight # <<>> =>
     LET top == insight[1].top_person
         row == insight[1].top_tgv
         own == { r \in Range(df) : r.out_employee_id = top.out_employee_id }
     IN  /\ top = df_final[1]
         /\ row \in own
         /\ \A r \in own : ~FloatLess(row.out_tgv_match_rate, r.out_tgv_match_rate)

\* A rate cell that is no number: text that does not parse, or null.
NotANumber(c) == c.kind = "null" \/ (c.kind = "text" /\ ~ParsesAsFloat(c.text))

SomeRateNotANumber ==
  \E r \in Range(sql_result) :
     \/ NotANumber(r.out_final_match_rate)
     \/ NotANumber(r.out_tgv_match_rate)
     \/ NotANumber(r.out_tv_match_rate)

\* C3: when a rate cell of the response is no number (unparseable text or null), the
\* run ends in the error state before the role filter and the aggregation: nothing is
\* normalized, ranked or summarised, and the end of the run is the handled error.
C3_BadRateEndsInError ==
  SomeRateNotANumber =>
     /\ produced = {}
     /\ NothingRanked
     /\ pc \in {"generate", "astype", "handled"}
     /\ pc = "handled" => "error_executing" \in messages

\* Equality of two role strings up to letter case, letter by letter.
SameLetter(x, y) ==
  x = y \/ {x, y} \in {{"D", "d"}, {"A", "a"}, {"H", "h"}, {"R", "r"}}

EqualIgnoringCase(a, b) ==
  /\ a # NoneRole /\ b # NoneRole
  /\ Len(a) = Len(b)
  /\ \A i \in 1..Len(a) : SameLetter(a[i], b[i])

NoRowOfRole ==
  /\ sql_result # <<>>
  /\ \A r \in Range(sql_result) : ~EqualIgnoringCase(r.out_role, role_name)

\* C4 as stated: a non-empty response without any row of the selected role always ends
\* in the warning and st.stop(), with nothing ranked or summarised.
C4_NoCandidatesAlwaysWarns ==
  NoRowOfRole =>
     /\ NothingRanked
     /\ Terminal => pc = "stopped" /\ "no_candidates_warning" \in messages

\* C4 amended: a non-empty response without any row of the selected role never reaches
\* the Aggregator, the tabs or the insights; the run ends in the warning and st.stop()
\* when the float coercion succeeds, and in the handled error (no warning) when a rate
\* cell is text that is no number.
C4_NoCandidatesAborts ==
  NoRowOfRole =>
     /\ NothingRanked
     /\ pc \notin {"groupby", "tabs", "insights", "finished"}
     /\ Terminal =>
          IF AstypeRaises(sql_result)
          THEN /\ pc = "handled"
               /\ "error_executing" \in messages
               /\ "no_candidates_warning" \notin messages
          ELSE /\ pc = "stopped"
               /\ "no_candidates_warning" \in messages
               /\ "error_executing" \notin messages

C4_Witness ==
  /\ NoRowOfRole
  /\ pc = "stopped"
  /\ "no_candidates_warning" \in messages
  /\ "filter" \in produced

\* C5: after the RPC has raised or returned no data, the run is over with an error
\* shown, /api/generate was never called, and nothing was normalized, ranked, shown in
\* a tab or summarised.
C5_RpcFailureAborts ==
  ("rpc" \in calls /\ sql_result = <<>>) =>
     /\ pc \in {"handled", "stopped"}
     /\ (pc = "handled" => "error_executing" \in messages)
     /\ (pc = "stopped" => "no_data_error" \in messages)
     /\ "generate" \notin calls
     /\ produced = {}
     /\ df = <<>>
     /\ NothingRanked
     /\ messages \cap {"match_computed", "profile_markdown", "profile_warning"} = {}

C5_Witness ==
  /\ "rpc" \in calls
  /\ pc = "stopped"
  /\ "no_data_error" \in messages

\* What the response and the selected role alone decide: how the run ends ...
ExpectedEnd(data, role) ==
  IF AstypeRaises(data) THEN "handled"
  ELSE LET rows == FilterRole(AstypeFloat(data), role)
       IN  IF rows = <<>> THEN "stopped"
           ELSE IF \A r \in Range(rows) : HasNullKey(r) THEN "handled"
           ELSE "finished"

\* ... and which messages other than those of the two non-critical calls it shows.
ExpectedMessages(end) ==
  {"match_computed"} \cup
  (CASE end = "handled" -> {"error_executing"}
     [] end = "stopped" -> {"no_candidates_warning"}
     [] OTHER -> {})

NonCriticalMessages ==
  {"benchmark_recorded", "benchmark_warning", "profile_markdown", "profile_warning"}

\* C6: neither a failed benchmark insert nor a failed profile call aborts the run: a run
\* that is past the insert has called the RPC or is about to, a run that got data has
\* called /api/generate or is about to, and a run that has ended after getting data ended
\* the way the response and the selected role decide (same end, same ranked list, same
\* messages), whatever the two calls did; their only trace is their own message.
C6_NonCriticalNeverAborts ==
  /\ (pc # "insert" => "insert" \in calls /\ ("rpc" \in calls \/ pc = "rpc"))
  /\ (sql_result # <<>> => ("generate" \in calls \/ pc = "generate"))
  /\ (Terminal /\ sql_result # <<>>) =>
        LET end == ExpectedEnd(sql_result, role_name)
        IN  /\ pc = end
            /\ messages \ NonCriticalMessages = ExpectedMessages(end)
            /\ Cardinality(messages \cap NonCriticalMessages) = 2
            /\ ("aggregate" \in produced =>
                  /\ df = FilterRole(AstypeFloat(sql_result), role_name)
                  /\ df_final \in Aggregate(df))

C6_Witness ==
  /\ pc = "finished"
  /\ {"benchmark_warning", "profile_warning"} \subseteq messages
  /\ df_final # <<>>
  /\ insight # <<>>

\* C7: after the role filter, df is the response's coerced rows restricted to exactly
\* the rows whose role equals the selected role up to letter case, in their original
\* relative order.
C7_FilterIsCaseInsensitive ==
  "filter" \in produced =>
     LET src == AstypeFloat(sql_result)
         kept == { i \in 1..Len(src) : EqualIgnoringCase(src[i].out_role, role_name) }
         \* the k-th smallest index of a kept row
         nth(k) == CHOOSE i \in kept : Cardinality({ j \in kept : j < i }) = k - 1
     IN  /\ Len(df) = Cardinality(kept)
         /\ \A k \in 1..Len(df) : df[k] = src[nth(k)]

C7_Witness ==
  /\ "filter" \in produced
  /\ \E r \in Range(df) : r.out_role # role_name
  /\ \E r \in Range(df) : r.out_role = role_name
  /\ Len(df) < Len(sql_result)

\* C8: no employeeId appears in more than one entry of df_final.
C8_OneEntryPerEmployeeId ==
  "aggregate" \in produced =>
     \A i, j \in 1..Len(df_final) :
        i # j => df_final[i].out_employee_id # df_final[j].out_employee_id

\* The position in the response of the first row of an entry's identity tuple.
FirstRowOf(e) ==
  CHOOSE i \in 1..Len(sql_result) :
     /\ GroupKey(sql_result[i]) = EntryKey(e)
     /\ \A j \in 1..(i - 1) : GroupKey(sql_result[j]) # EntryKey(e)

\* C9: df_final is ordered descending by mean finalMatchRate, and two entries with
\* equal means stand in the order in which their first rows stand in the response.
C9_StableRanking ==
  "aggregate" \in produced =>
     /\ RankedDescending
     /\ \A i, j \in 1..Len(df_final) :
          (i < j /\ df_final[i].out_final_match_rate = df_final[j].out_final_match_rate)
             => FirstRowOf(df_final[i]) < FirstRowOf(df_final[j])

RECURSIVE RowsOfKey(_, _)
RowsOfKey(rows, k) ==
  IF rows = <<>> THEN <<>>
  ELSE IF GroupKey(Head(rows)) = k THEN <<Head(rows)>> \o RowsOfKey(Tail(rows), k)
       ELSE RowsOfKey(Tail(rows), k)

\* C10: the score of every entry of df_final is the arithmetic mean of finalMatchRate
\* over all the filtered rows of its identity tuple, each occurrence counted: NaN when
\* one of those rates is NaN, and otherwise their sum divided by their number.
C10_MeanOverAllRows ==
  "aggregate" \in produced =>
     \A i \in 1..Len(df_final) :
        LET rows == RowsOfKey(df, EntryKey(df_final[i]))
            rates == [k \in 1..Len(rows) |-> rows[k].out_final_match_rate]
            mean == df_final[i].out_final_match_rate
        IN  IF \E k \in 1..Len(rates) : IsNaN(rates[k])
            THEN IsNaN(mean)
            ELSE /\ ~IsNaN(mean)
                 /\ mean.num * Len(rates) = mean.den * SumOf(rates)

\* The two worked scenarios give [E1: 80] and [E1: 90, E2: 60].
ScenariosAsStated ==
  "aggregate" \in produced =>
     /\ sql_result = ScenarioMean =>
          /\ Len(df_final) = 1
          /\ df_final[1].out_final_match_rate = Float(80)
     /\ sql_result = ScenarioRanking =>
          /\ Len(df_final) = 2
          /\ df_final[1].out_employee_id = 1 /\ df_final[1].out_final_match_rate = Float(90)
          /\ df_final[2].out_employee_id = 2 /\ df_final[2].out_final_match_rate = Float(60)

====
